---- MODULE Spec2Model ----
(***************************************************************************)
(* One Streamlit session of src/aaa.py.  The script is re-executed from    *)
(* top to bottom on every widget interaction; st.session_state survives    *)
(* between executions.  Each action below is one complete execution of the *)
(* script for one kind of interaction, or one change of the environment    *)
(* (the secrets store, the remote service).                                *)
(*                                                                         *)
(* Texts are sequences of tokens, so that concatenation is \o and the      *)
(* empty text is <<>> (falsy in Python, like "" and None).                 *)
(* A chat handle of the google.generativeai library keeps its own copy of  *)
(* the history it is given (ChatSession converts the list it receives).    *)
(***************************************************************************)
EXTENDS Integers, Sequences, FiniteSets, TLC

VARIABLES
    GEMINI_API_KEY,      \* st.secrets.get("GEMINI_API_KEY"), line 17
    configured_key,      \* the key genai.configure was last given, line 84
    validKeys,           \* the keys the remote service accepts at the moment
    resource_cache,      \* st.cache_resource store of initialize_gemini_model
    selected_lang_name,  \* st.session_state.selected_lang_name
    uploaded_file,       \* the file_uploader widget's value, line 127
    gemini_model,        \* st.session_state.gemini_model
    chat_history,        \* st.session_state.chat_history
    chat,                \* st.session_state.chat
    chat_init_success,   \* st.session_state.chat_init_success
    pc,                  \* "rerun": an execution is pending; "idle": waiting
    was_reset,           \* the clear button has been used in this session
    last                 \* what the most recent execution of the script did

vars == << GEMINI_API_KEY, configured_key, validKeys, resource_cache, selected_lang_name,
           uploaded_file, gemini_model, chat_history, chat,
           chat_init_success, pc, was_reset, last >>

----------------------------------------------------------------------------
(* Bounds of the model *)

MaxHist == 4

----------------------------------------------------------------------------
(* Value domains *)

Keys == {"k1"}

KeyValues == {"None"} \cup Keys

LANG_FILES == {"zh_tw", "en"}

Files == {"None", "good", "bad"}

Questions == { <<"q1">>, <<"q2">> }

\* streamed responses, each a sequence of chunk texts
ChunkSeqs == { <<>>, << <<"r">> >>, << <<"r">>, <<"s">> >> }

NoQuery == <<>>

Content(role, text) == [role |-> role, text |-> text]

NoChat(st) == [st |-> st, history |-> <<>>, seed |-> <<>>, stale |-> FALSE]

IsPrefix(s, t) == Len(s) <= Len(t) /\ SubSeq(t, 1, Len(s)) = s

RECURSIVE Flatten(_)
Flatten(ss) == IF ss = <<>> THEN <<>> ELSE Head(ss) \o Flatten(Tail(ss))

----------------------------------------------------------------------------
(* Session state initialisation, lines 71-74: only when the session has no *)
(* gemini_model entry yet.                                                 *)

SessionInit_NoGuard(gm, hist) == [gm |-> "None", hist |-> <<>>]

SessionInit(gm, hist) ==
    IF gm = "Absent" THEN [gm |-> "None", hist |-> <<>>]
                     ELSE [gm |-> gm, hist |-> hist]

(* initialize_gemini_model, lines 77-98.  remoteOk: configure, list_models *)
(* and GenerativeModel all went through.                                   *)

initialize_gemini_model_Inverted(api_key, remoteOk) ==
    IF api_key # "None" THEN "None" ELSE "Model"

initialize_gemini_model(api_key, remoteOk) ==
    IF api_key = "None" THEN "None"
    ELSE IF remoteOk THEN "Model"
    ELSE "None"

(* The st.cache_resource decorator, line 76: the body runs once for each   *)
(* argument value; later calls return the stored result.  genai.configure  *)
(* (line 84) runs only when the body runs with a key.                      *)
CachedInitialize(cache, configured, api_key, remoteOk) ==
    IF cache[api_key] # "miss"
    THEN [result |-> cache[api_key], cache |-> cache, configured |-> configured]
    ELSE LET r == initialize_gemini_model(api_key, remoteOk)
         IN  [result |-> r,
              cache |-> [cache EXCEPT ![api_key] = r],
              configured |-> IF api_key = "None" THEN configured ELSE api_key]

(* "Initialize model only once", lines 101-102 *)
EnsureModel_EveryRun(gm, cache, configured, api_key, remoteOk) ==
    LET c == CachedInitialize(cache, configured, api_key, remoteOk)
    IN  [gm |-> c.result, cache |-> c.cache, configured |-> c.configured]

EnsureModel(gm, cache, configured, api_key, remoteOk) ==
    IF gm = "None"
    THEN LET c == CachedInitialize(cache, configured, api_key, remoteOk)
         IN  [gm |-> c.result, cache |-> c.cache, configured |-> c.configured]
    ELSE [gm |-> gm, cache |-> cache, configured |-> configured]

(* CSV tab, lines 129-132 and 205-209: df is a local of one execution *)
read_csv(file) == [loaded |-> (file = "good")]

(* The chat tab is rendered only with a model, line 222 *)
ChatTabEnabled(gm) == gm = "Model"

(* line 235: the handle's history is replaced by the transcript *)
SyncHistory_Skipped(ch, hist) == ch

SyncHistory(ch, hist) == [ch EXCEPT !.history = hist]

(* line 233: a failed start_chat records the failure *)
FailedInitFlag_Stale(cis) == cis

FailedInitFlag(cis) == "False"

(* Chat session initialisation, lines 226-235 *)
ChatInit(ch, cis, hist, startOk) ==
    IF ch.st # "handle"
    THEN IF startOk
         THEN [chat |-> [st |-> "handle", history |-> hist, seed |-> hist,
                         stale |-> FALSE],
               cis |-> "True", tried |-> TRUE]
         ELSE [chat |-> ch, cis |-> FailedInitFlag(cis), tried |-> TRUE]
    ELSE [chat |-> SyncHistory(ch, hist), cis |-> cis, tried |-> FALSE]

(* The decorated prompt of the design: preamble, schema, statistics, head  *)
(* rows, then the question.                                                *)
ComposedPrompt(df, user_query) ==
    IF df.loaded
    THEN <<"preamble", "schema", "stats", "head5">> \o user_query
    ELSE user_query

(* line 256: what send_message is given *)
PromptFor(df, user_query) == user_query

(* lines 257-259: response_text accumulates every chunk *)
ResponseText_LastChunk(chunks) ==
    IF chunks = <<>> THEN <<>> ELSE chunks[Len(chunks)]

ResponseText(chunks) == Flatten(chunks)

(* lines 262-269: the except branches only show notices *)
AfterSendFailure_DropQuestion(hist) == SubSeq(hist, 1, Len(hist) - 1)

AfterSendFailure(hist) == hist

(* Chat submission, lines 246-269.  out.ok: the stream was read to its     *)
(* end; otherwise out.chunks are the chunks read before the exception of   *)
(* kind out.kind was raised.  A send on a missing handle raises at line    *)
(* 256, inside the try.                                                    *)
Submission(ch, cis, hist, user_query, df, out) ==
    IF cis # "True"
    THEN [hist |-> hist, chat |-> ch, sent |-> FALSE, prompt |-> <<>>,
          outcome |-> "blocked", chunks |-> <<>>]
    ELSE LET h1     == Append(hist, Content("user", user_query))
             prompt == PromptFor(df, user_query)
         IN  IF ch.st # "handle"
             THEN [hist |-> AfterSendFailure(h1), chat |-> ch, sent |-> FALSE,
                   prompt |-> prompt, outcome |-> "error", chunks |-> <<>>]
             ELSE IF out.ok
             THEN LET text == ResponseText(out.chunks)
                  IN  [hist |-> Append(h1, Content("model", text)),
                       chat |-> [ch EXCEPT !.history =
                                    ch.history \o << Content("user", prompt),
                                                     Content("model", text) >>],
                       sent |-> TRUE, prompt |-> prompt, outcome |-> "ok",
                       chunks |-> out.chunks]
             ELSE [hist |-> AfterSendFailure(h1), chat |-> ch, sent |-> TRUE,
                   prompt |-> prompt, outcome |-> out.kind,
                   chunks |-> out.chunks]

(* Clear chat button, lines 273-274.  Retired marks the handle object the  *)
(* session held when the button was clicked, so that a later use of that   *)
(* same object can be told from the use of a new one.                      *)
Retired(ch) == [ch EXCEPT !.stale = (ch.st = "handle")]

ClearedHistory_Kept(hist) == hist

ClearedHistory(hist) == <<>>

ClearedChat_Kept(ch) == ch

ClearedChat(ch) == NoChat("None")

----------------------------------------------------------------------------
(* One execution of the script from line 63 to the end, for the widget     *)
(* values of this execution: user_query (NoQuery when the chat input was   *)
(* not submitted), clicked (the clear button), file (the uploader).        *)
(* startOk, remoteOk and out are the outcomes of the library calls.        *)

Outcomes ==
    [ok : {TRUE}, kind : {"ok"}, chunks : ChunkSeqs]
      \cup [ok : {FALSE}, kind : {"stop", "error"}, chunks : ChunkSeqs]

NoOutcome == [ok |-> FALSE, kind |-> "error", chunks |-> <<>>]

Execute(kind, user_query, clicked, startOk, remoteOk, out) ==
    LET s0  == SessionInit(gemini_model, chat_history)
        m   == EnsureModel(s0.gm, resource_cache, configured_key,
                           GEMINI_API_KEY, remoteOk)
        df  == read_csv(uploaded_file')
        tab == ChatTabEnabled(m.gm)
        c1  == IF tab
               THEN ChatInit(chat, chat_init_success, s0.hist, startOk)
               ELSE [chat |-> chat, cis |-> chat_init_success, tried |-> FALSE]
        sub == IF tab /\ user_query # NoQuery
               THEN Submission(c1.chat, c1.cis, s0.hist, user_query, df, out)
               ELSE [hist |-> s0.hist, chat |-> c1.chat, sent |-> FALSE,
                     prompt |-> <<>>, outcome |-> "none", chunks |-> <<>>]
        clr == tab /\ clicked
    IN  /\ gemini_model' = m.gm
        /\ resource_cache' = m.cache
        /\ configured_key' = m.configured
        /\ chat_init_success' = c1.cis
        /\ chat_history' = IF clr THEN ClearedHistory(sub.hist) ELSE sub.hist
        /\ chat' = IF clr THEN ClearedChat(Retired(sub.chat)) ELSE sub.chat
        /\ was_reset' = (was_reset \/ clr)
        /\ pc' = IF clr THEN "rerun" ELSE "idle"
        /\ last' = [kind |-> kind, pre |-> s0.hist, query |-> user_query,
                    sent |-> sub.sent, prompt |-> sub.prompt,
                    outcome |-> sub.outcome, chunks |-> sub.chunks,
                    hSt |-> c1.chat.st, hHist |-> c1.chat.history,
                    hSeed |-> c1.chat.seed, hStale |-> c1.chat.stale,
                    tried |-> c1.tried,
                    startFailed |-> (c1.tried /\ c1.chat.st # "handle"),
                    table |-> df.loaded, tab |-> tab,
                    credOk |-> (m.configured \in validKeys)]
        /\ UNCHANGED << GEMINI_API_KEY, validKeys, selected_lang_name >>

NoRun(kind) ==
    [kind |-> kind, pre |-> chat_history, query |-> NoQuery, sent |-> FALSE,
     prompt |-> <<>>, outcome |-> "none", chunks |-> <<>>,
     hSt |-> "Absent", hHist |-> <<>>, hSeed |-> <<>>, hStale |-> FALSE,
     tried |-> FALSE, startFailed |-> FALSE, table |-> FALSE, tab |-> FALSE,
     credOk |-> FALSE]

(* start_chat is called only when the session holds no handle (line 226); *)
(* the remote service is asked only when initialize_gemini_model's body    *)
(* runs with a key (lines 79-86), and it can answer only for a key it      *)
(* accepts.                                                                *)
StartOutcomes == IF chat.st = "handle" THEN {TRUE} ELSE BOOLEAN

RemoteOutcomes ==
    IF /\ gemini_model # "Model"
       /\ GEMINI_API_KEY # "None"
       /\ resource_cache[GEMINI_API_KEY] = "miss"
       /\ GEMINI_API_KEY \in validKeys
    THEN BOOLEAN ELSE {FALSE}

Init ==
    /\ GEMINI_API_KEY \in KeyValues
    /\ configured_key = "None"
    /\ validKeys \in SUBSET Keys
    /\ resource_cache = [k \in KeyValues |-> "miss"]
    /\ selected_lang_name = "zh_tw"
    /\ uploaded_file = "None"
    /\ gemini_model = "Absent"
    /\ chat_history = <<>>
    /\ chat = NoChat("Absent")
    /\ chat_init_success = "Absent"
    /\ pc = "rerun"
    /\ was_reset = FALSE
    /\ last = NoRun("start")

(* The pending execution: the first page load, or the one st.rerun() asked *)
(* for (lines 61 and 276).                                                 *)
Rerun ==
    /\ pc = "rerun"
    /\ uploaded_file' = uploaded_file
    /\ \E startOk \in StartOutcomes, remoteOk \in RemoteOutcomes :
          Execute("run", NoQuery, FALSE, startOk, remoteOk, NoOutcome)

(* Any widget of the CSV tab other than the uploader (chart selectors) *)
Interact ==
    /\ pc = "idle"
    /\ uploaded_file' = uploaded_file
    /\ \E startOk \in StartOutcomes, remoteOk \in RemoteOutcomes :
          Execute("run", NoQuery, FALSE, startOk, remoteOk, NoOutcome)

(* The file uploader changes, line 127 *)
Upload(file) ==
    /\ pc = "idle"
    /\ file # uploaded_file
    /\ uploaded_file' = file
    /\ \E startOk \in StartOutcomes, remoteOk \in RemoteOutcomes :
          Execute("run", NoQuery, FALSE, startOk, remoteOk, NoOutcome)

(* The language selector changes, lines 53-61: the execution stops at      *)
(* st.rerun() before anything else runs.                                   *)
ChangeLanguage(lang) ==
    /\ pc = "idle"
    /\ lang # selected_lang_name
    /\ selected_lang_name' = lang
    /\ pc' = "rerun"
    /\ last' = NoRun("lang")
    /\ UNCHANGED << GEMINI_API_KEY, configured_key, validKeys, resource_cache,
                    uploaded_file, gemini_model, chat_history, chat,
                    chat_init_success, was_reset >>

(* The chat input is submitted, line 244.  The widget exists only when the *)
(* previous execution rendered the chat tab (line 222).                    *)
Submit(user_query, out) ==
    /\ pc = "idle"
    /\ ChatTabEnabled(gemini_model)
    /\ Len(chat_history) + 2 <= MaxHist
    /\ uploaded_file' = uploaded_file
    /\ out.ok => configured_key \in validKeys
    /\ \E startOk \in StartOutcomes :
          Execute("submit", user_query, FALSE, startOk, FALSE, out)

(* The clear chat button is clicked, line 272 *)
ClearChat ==
    /\ pc = "idle"
    /\ ChatTabEnabled(gemini_model)
    /\ uploaded_file' = uploaded_file
    /\ \E startOk \in StartOutcomes :
          Execute("clear", NoQuery, TRUE, startOk, FALSE, NoOutcome)

(* The secrets store is edited: the credential is supplied, replaced or    *)
(* removed.                                                                *)
SetCredential(key) ==
    /\ key # GEMINI_API_KEY
    /\ GEMINI_API_KEY' = key
    /\ UNCHANGED << configured_key, validKeys, resource_cache,
                    selected_lang_name, uploaded_file, gemini_model,
                    chat_history, chat, chat_init_success, pc, was_reset, last >>

(* The remote service starts or stops accepting a key (revocation) *)
RemoteChange(keys) ==
    /\ keys # validKeys
    /\ validKeys' = keys
    /\ UNCHANGED << GEMINI_API_KEY, configured_key, resource_cache,
                    selected_lang_name, uploaded_file, gemini_model,
                    chat_history, chat, chat_init_success, pc, was_reset, last >>

Next ==
    \/ Rerun
    \/ Interact
    \/ \E file \in Files : Upload(file)
    \/ \E lang \in LANG_FILES : ChangeLanguage(lang)
    \/ \E q \in Questions, out \in Outcomes : Submit(q, out)
    \/ ClearChat
    \/ \E key \in KeyValues : SetCredential(key)
    \/ \E keys \in SUBSET Keys : RemoteChange(keys)

Spec == Init /\ [][Next]_vars

----------------------------------------------------------------------------
(* Properties *)

UserMsg(text) == Content("user", text)

RunKinds == {"run", "submit", "clear"}

FailedSend == last.kind = "submit" /\ last.sent /\ last.outcome # "ok"

(* C1: right after the clear button's execution, whatever the transcript   *)
(* held before, chat_history is the empty sequence, and it is still empty  *)
(* in the state from which the rerun asked for by st.rerun() starts.       *)
C1_ResetEmptiesTranscript ==
    last.kind = "clear" => (chat_history = <<>> /\ pc = "rerun")

C1_Witness == last.kind = "clear" /\ Len(last.pre) >= 2 /\ pc = "rerun"

(* C2: the clear button leaves the session without a handle; every send    *)
(* goes through a handle object that no clear has retired, and once the    *)
(* session has been reset the handle used by a send was constructed from   *)
(* the empty transcript.                                                   *)
C2_FreshHandleAfterReset ==
    /\ last.kind = "clear" => chat.st = "None"
    /\ last.sent => (last.hSt = "handle" /\ ~last.hStale)
    /\ (last.sent /\ was_reset) => last.hSeed = <<>>

C2_Witness == last.sent /\ was_reset /\ last.outcome = "ok"

(* C3: after a send that failed (content-policy stop or any other error,   *)
(* before or part-way through the stream) the transcript is the transcript *)
(* before the submission plus one user message with the question; nothing  *)
(* of the partial response is stored and the session waits for the next    *)
(* interaction.                                                            *)
C3_FailedSendKeepsQuestionOnly ==
    FailedSend =>
        /\ chat_history = Append(last.pre, UserMsg(last.query))
        /\ pc = "idle"

C3_Witness ==
    FailedSend /\ last.outcome = "stop" /\ last.chunks # <<>> /\ last.pre # <<>>

(* C4: after a successful send the transcript is the one before the        *)
(* submission plus a user message with the question as typed and a model   *)
(* message with the whole response, in this order, and nothing else.       *)
C4_SuccessfulSendAppendsTwo ==
    (last.kind = "submit" /\ last.outcome = "ok") =>
        chat_history = last.pre \o << UserMsg(last.query),
                                      Content("model", Flatten(last.chunks)) >>

C4_Witness ==
    /\ last.kind = "submit" /\ last.outcome = "ok"
    /\ Len(last.chunks) = 2 /\ last.table /\ last.pre # <<>>

(* C5: in every step other than the clear button's execution the          *)
(* transcript before the step is a prefix of the transcript after it.      *)
C5_AppendOnlyBetweenResets ==
    [][ ~(pc = "idle" /\ last'.kind = "clear")
          => IsPrefix(chat_history, chat_history') ]_vars

C5_Witness ==
    /\ ~was_reset /\ Len(chat_history) >= 3
    /\ selected_lang_name = "en" /\ uploaded_file = "bad"
    /\ last.kind = "run"

(* C6: while no credential is supplied and the session has no model, an    *)
(* execution yields no model, constructs no handle, accepts no chat input, *)
(* issues no send and leaves the transcript empty; the CSV tab still       *)
(* parses the uploaded file.                                               *)
C6_NoCredentialStaysDisabled ==
    [][ (GEMINI_API_KEY = "None" /\ gemini_model # "Model") =>
          /\ gemini_model' # "Model"
          /\ chat'.st # "handle"
          /\ chat_history' = <<>>
          /\ ~last'.tab /\ ~last'.sent /\ last'.kind # "submit"
          /\ (last'.kind = "run" /\ pc = "idle")
                => last'.table = (uploaded_file' = "good") ]_vars

C6_Witness ==
    /\ GEMINI_API_KEY = "None" /\ gemini_model = "None" /\ pc = "idle"
    /\ last.kind = "run" /\ last.table

(* C7 as stated: a send is issued only while the remote service accepts    *)
(* the credential the model was configured with.                           *)
C7_RevokedSessionSendsNothing == last.sent => last.credOk

(* C7 as amended: a session that has a model keeps it, whatever happens to *)
(* the credential afterwards.                                              *)
C7_ModelKeptOnceLoaded ==
    [][ gemini_model = "Model" => gemini_model' = "Model" ]_vars

C7_Witness ==
    /\ last.kind = "submit" /\ last.sent /\ ~last.credOk
    /\ GEMINI_API_KEY = "None" /\ gemini_model = "Model"

(* C8 as stated: with a table loaded the prompt given to the remote chat   *)
(* call is the composed prompt, and the raw question otherwise.            *)
C8_ComposedPromptWithTable ==
    last.sent => last.prompt = ComposedPrompt([loaded |-> last.table], last.query)

(* C8 as amended: the prompt given to the remote chat call is the raw      *)
(* question, with or without a table loaded.                               *)
C8_RawQuestionAlways == last.sent => last.prompt = last.query

C8_Witness == last.sent /\ last.table

(* C9: at every send the history held by the handle is the transcript as   *)
(* it stood before the question was appended.                              *)
C9_HandleHistoryIsTranscript == last.sent => last.hHist = last.pre

C9_Witness ==
    /\ last.sent /\ last.pre # <<>>
    /\ last.pre[Len(last.pre)].role = "user"

(* C10: when start_chat fails the session has no handle and the flag is    *)
(* false; a question submitted in that execution changes nothing and is    *)
(* not sent; an execution of the chat tab without a handle always attempts *)
(* construction; a send always has a handle; and between executions the    *)
(* flag is true only while a handle exists.                                *)
C10_InitFailureContained ==
    /\ last.startFailed => (chat.st # "handle" /\ chat_init_success = "False")
    /\ (last.kind = "submit" /\ last.startFailed) =>
          (~last.sent /\ last.outcome = "blocked" /\ chat_history = last.pre)
    /\ (last.kind \in RunKinds /\ last.tab /\ ~last.tried) => last.hSt = "handle"
    /\ last.sent => last.hSt = "handle"
    /\ (pc = "idle" /\ chat_init_success = "True") => chat.st = "handle"

C10_Witness == last.kind = "submit" /\ last.startFailed /\ was_reset

====
